---- MODULE Spec2Model ----
(***************************************************************************)
(* Order transaction manager of the bookstore backend: the cart, order and *)
(* order-item tables, the catalog, and the request handlers of             *)
(* routes/cart.ts and routes/orders.ts, one action per awaited step.       *)
(*                                                                         *)
(* Money is a JavaScript number counted in thousandths of a currency unit  *)
(* (12.50 is 12500), so that rounding to two decimals is a real function.  *)
(* A DECIMAL(10,2) column holds multiples of 10.                           *)
(*                                                                         *)
(* Transactions: the store is PostgreSQL at its default isolation level    *)
(* (no isolationLevel is configured), so each statement of a transaction   *)
(* reads the committed rows of the moment it runs; the rows a transaction  *)
(* writes stay private to it until commit and are dropped by rollback; a   *)
(* DELETE locks the rows it matched until its transaction ends.            *)
(***************************************************************************)
EXTENDS Integers, Sequences, FiniteSets, TLC

\* ------------------------------------------------------------------ bounds
NumSlots == 2       \* requests in flight at the same time
MaxReqs == 3        \* requests accepted in one behaviour
MaxOrders == 2      \* Order rows the orders table holds
MaxCartRows == 3    \* cart rows the cart table holds
MaxLineQty == 2     \* largest quantity a cart line reaches
MaxEdits == 1       \* catalog edits in one behaviour
MaxQtyInput == 2    \* largest quantity a request asks for

\* --------------------------------------------------------------- constants
Users == {"u1", "u2"}
Books == {"b1", "b2"}
NullPrice == -1
Prices == {NullPrice, 7250, 12500}
Availability == {"available", "out_of_stock", "pre_order"}
OrderStatus == {"pending", "confirmed", "shipped", "delivered", "cancelled"}
NaN == "NaN"
Reqs == 1..NumSlots

VARIABLES
    books,          \* books table: id -> [title, price, availability]
    cart,           \* cart table: set of rows [id, userId, bookId, quantity]
    orders,         \* orders table: set of rows [id, userId, totalAmount, status]
    orderItems,     \* order_items table: set of rows [id, orderId, bookId, quantity, price]
    edits,          \* catalog edits made so far
    sent,           \* notifier calls made: set of [orderId, type, ok]
    started,        \* requests accepted so far
    req             \* the requests in flight: req[r] is the handler invocation in slot r

vars == <<books, cart, orders, orderItems, edits, sent, started, req>>

\* ----------------------------------------------------------------- helpers
NoRow == [id |-> 0, userId |-> "", bookId |-> "", quantity |-> 0]

\* a slot that serves no request
IdleReq == [kind |-> "", userId |-> "", pc |-> "idle", tx |-> "none",
            rbOnFinished |-> FALSE, cartItems |-> <<>>, orderItemsData |-> <<>>,
            totalAmount |-> 0, orderId |-> 0, wOrders |-> {}, wItems |-> {},
            wCartDel |-> {}, completeOrder |-> 0, bookId |-> "", quantity |-> 0,
            row |-> NoRow, paramId |-> 0, origItems |-> <<>>, response |-> "none",
            detail |-> ""]

\* all orderings of a set of rows (a SELECT without ORDER BY)
SeqsOf(S) == {s \in [1..Cardinality(S) -> S] : \A i, j \in 1..Cardinality(S) : i # j => s[i] # s[j]}

\* book.price || 0
PriceOrZero(price) == IF price = NullPrice \/ price = 0 THEN 0 ELSE price

\* Math.round(totalAmount * 100) / 100
Round2(x) == ((x + 5) \div 10) * 10

\* Number(book.id) of a UUID string
ToNumber(id) == NaN

\* ids a request in flight holds: a fresh uuid equals none of them
HeldCartIds == UNION {{req[r].row.id} \cup req[r].wCartDel
                      \cup {req[r].cartItems[i].id : i \in 1..Len(req[r].cartItems)} : r \in Reqs}
HeldOrderIds == {req[r].orderId : r \in Reqs}

\* uuidv4(): an id no row has and no request holds
FreshCartIds == {n \in 1..MaxCartRows : n \notin {c.id : c \in cart} \cup HeldCartIds}
FreshOrderIds == {n \in 1..MaxOrders : n \notin {o.id : o \in orders} \cup HeldOrderIds}
Least(S) == CHOOSE n \in S : \A m \in S : n <= m

\* rows locked by the DELETE of an open transaction
Locked == UNION {req[q].wCartDel : q \in {p \in Reqs : req[p].tx = "open"}}
LockedByOther(r) == UNION {req[q].wCartDel : q \in {p \in Reqs : p # r /\ req[p].tx = "open"}}

\* no handler has just answered: the answer of a handler is looked at before
\* anything else happens
Quiet == \A q \in Reqs : req[q].pc # "done"

\* a request is accepted by the lowest slot that serves no request
CanStart(r) ==
    /\ Quiet
    /\ started < MaxReqs
    /\ req[r].pc = "idle"
    /\ \A q \in Reqs : q < r => req[q].pc # "idle"

\* ------------------------------------------------------------ transactions
\* transaction.rollback() on an open transaction: its writes are dropped
Rollback(R) == [R EXCEPT !.tx = "rollback", !.wOrders = {}, !.wItems = {}, !.wCartDel = {}]

\* return res.status(...).json(...)
Reply(R, status) == [R EXCEPT !.response = status, !.pc = "done"]

\* The catch block of createOrder and reorder: rollback, then status 500.
\* rollback() on a transaction that is already finished throws, the handler's
\* promise rejects before res.status(500) runs, and the outcome is the
\* framework's: no response at all, or the global error handler's 500.
CatchBlock(R) ==
    IF R.tx = "open"
    THEN {Reply(Rollback(R), "500")}
    ELSE {Reply([R EXCEPT !.rbOnFinished = TRUE], s) : s \in {"none", "500_unhandled"}}

\* who sends the next request: the users are interchangeable, so the first
\* request of a behaviour is taken to be u1's
Callers == IF started = 0 /\ orders = {} THEN {"u1"} ELSE Users

\* ids a request names: those of the rows that exist and one that names no row
CartIdInputs == {c.id : c \in cart} \cup {0}
OrderIdInputs == {o.id : o \in orders} \cup {0}

\* the handler in slot r moves on to R
Step(r, R) == req' = [req EXCEPT ![r] = R]

\* a request is accepted by the lowest free slot; it is counted
Accept(r, R) == req' = [req EXCEPT ![r] = R] /\ started' = started + 1

\* ------------------------------------------------------------- createOrder
\* Cart.findAll({where: {userId}, include: Book}): the owner's committed
\* cart rows, each joined with its book, in an order the store chooses
CartWithBooks(userId) ==
    LET rows == {[id |-> c.id, bookId |-> c.bookId, quantity |-> c.quantity,
                  book |-> [id |-> c.bookId, title |-> books[c.bookId].title,
                            price |-> books[c.bookId].price,
                            availability |-> books[c.bookId].availability]] :
                 c \in {x \in cart : x.userId = userId}}
    IN SeqsOf(rows)

\* the loop with the availability test narrowed to "out_of_stock"
RECURSIVE CreateOrderLoop_OnlyOutOfStock(_, _, _, _)
CreateOrderLoop_OnlyOutOfStock(cartItems, i, totalAmount, orderItemsData) ==
    IF i > Len(cartItems)
    THEN [ok |-> TRUE, title |-> "", totalAmount |-> totalAmount,
          orderItemsData |-> orderItemsData]
    ELSE LET cartItem == cartItems[i]
             book == cartItem.book
         IN IF book.availability = "out_of_stock"
            THEN [ok |-> FALSE, title |-> book.title, totalAmount |-> totalAmount,
                  orderItemsData |-> orderItemsData]
            ELSE CreateOrderLoop_OnlyOutOfStock(cartItems, i + 1,
                     totalAmount + PriceOrZero(book.price) * cartItem.quantity,
                     Append(orderItemsData,
                            [bookId |-> book.id, quantity |-> cartItem.quantity,
                             price |-> PriceOrZero(book.price)]))

\* the loop with the quantity left out of the item total
RECURSIVE CreateOrderLoop_NoQuantity(_, _, _, _)
CreateOrderLoop_NoQuantity(cartItems, i, totalAmount, orderItemsData) ==
    IF i > Len(cartItems)
    THEN [ok |-> TRUE, title |-> "", totalAmount |-> totalAmount,
          orderItemsData |-> orderItemsData]
    ELSE LET cartItem == cartItems[i]
             book == cartItem.book
         IN IF book.availability # "available"
            THEN [ok |-> FALSE, title |-> book.title, totalAmount |-> totalAmount,
                  orderItemsData |-> orderItemsData]
            ELSE CreateOrderLoop_NoQuantity(cartItems, i + 1,
                     totalAmount + PriceOrZero(book.price),
                     Append(orderItemsData,
                            [bookId |-> book.id, quantity |-> cartItem.quantity,
                             price |-> PriceOrZero(book.price)]))

\* for (const cartItem of cartItems) { availability check; total; push }
RECURSIVE CreateOrderLoop(_, _, _, _)
CreateOrderLoop(cartItems, i, totalAmount, orderItemsData) ==
    IF i > Len(cartItems)
    THEN [ok |-> TRUE, title |-> "", totalAmount |-> totalAmount,
          orderItemsData |-> orderItemsData]
    ELSE LET cartItem == cartItems[i]
             book == cartItem.book
         IN IF book.availability # "available"
            THEN [ok |-> FALSE, title |-> book.title, totalAmount |-> totalAmount,
                  orderItemsData |-> orderItemsData]
            ELSE CreateOrderLoop(cartItems, i + 1,
                     totalAmount + PriceOrZero(book.price) * cartItem.quantity,
                     Append(orderItemsData,
                            [bookId |-> book.id, quantity |-> cartItem.quantity,
                             price |-> PriceOrZero(book.price)]))

\* POST /create: open the transaction, then the request validation
StartCreateOrder(r) ==
    /\ CanStart(r)
    /\ \E u \in Callers, valid \in BOOLEAN :
         LET R == [IdleReq EXCEPT !.kind = "createOrder", !.userId = u, !.tx = "open"]
         IN Accept(r, IF valid THEN [R EXCEPT !.pc = "loadCart"]
                      ELSE Reply(Rollback(R), "400_validation"))
    /\ UNCHANGED <<books, cart, orders, orderItems, edits, sent>>

\* the cart read followed by the loop, without the empty-cart check
CartLoaded_NoEmptyCheck(R0, cartItems) ==
    LET R == [R0 EXCEPT !.cartItems = cartItems]
        res == CreateOrderLoop(cartItems, 1, 0, <<>>)
    IN IF ~res.ok
       THEN Reply(Rollback([R EXCEPT !.detail = res.title]), "400_unavailable")
       ELSE [R EXCEPT !.orderItemsData = res.orderItemsData,
                      !.totalAmount = res.totalAmount,
                      !.pc = "orderCreate"]

\* what follows the cart read: the empty-cart check, then the loop, each
\* failure rolling back and answering 400
CartLoaded(R0, cartItems) ==
    LET R == [R0 EXCEPT !.cartItems = cartItems]
        res == CreateOrderLoop(cartItems, 1, 0, <<>>)
    IN IF Len(cartItems) = 0 THEN Reply(Rollback(R), "400_empty")
       ELSE IF ~res.ok
            THEN Reply(Rollback([R EXCEPT !.detail = res.title]), "400_unavailable")
            ELSE [R EXCEPT !.orderItemsData = res.orderItemsData,
                           !.totalAmount = res.totalAmount,
                           !.pc = "orderCreate"]

\* the cart read (which may throw), the empty-cart check and the loop
LoadCart(r) ==
    /\ Quiet
    /\ req[r].pc = "loadCart"
    /\ \/ \E R \in CatchBlock(req[r]) : Step(r, R)
       \/ \E cartItems \in CartWithBooks(req[r].userId) :
            Step(r, CartLoaded(req[r], cartItems))
    /\ UNCHANGED <<books, cart, orders, orderItems, edits, sent, started>>

\* Order.create without the {transaction} option: the row is committed at once
OrderInsert_NoTransaction(r, row) ==
    /\ Step(r, [req[r] EXCEPT !.orderId = row.id, !.pc = "itemsCreate"])
    /\ orders' = orders \cup {row}

\* the {transaction} option of Order.create: the row is written inside the
\* transaction of the handler in slot r
OrderInsert(r, row) ==
    /\ Step(r, [req[r] EXCEPT !.orderId = row.id, !.wOrders = {row},
                              !.pc = "itemsCreate"])
    /\ UNCHANGED orders

\* Order.create({userId, totalAmount: Math.round(totalAmount * 100) / 100,
\* status: "pending", ...}, {transaction})
OrderCreate(r) ==
    /\ Quiet
    /\ req[r].pc = "orderCreate"
    /\ \/ /\ \E R \in CatchBlock(req[r]) : Step(r, R)
          /\ UNCHANGED orders
       \/ /\ FreshOrderIds # {}
          /\ OrderInsert(r, [id |-> Least(FreshOrderIds), userId |-> req[r].userId,
                             totalAmount |-> Round2(req[r].totalAmount),
                             status |-> "pending"])
    /\ UNCHANGED <<books, cart, orderItems, edits, sent, started>>

\* the rows of all elements but the last
ItemRows_SkipsLast(orderId, data) ==
    {[id |-> <<orderId, k>>, orderId |-> orderId, bookId |-> data[k].bookId,
      quantity |-> data[k].quantity, price |-> data[k].price] : k \in 1..(Len(data) - 1)}

\* OrderItem.create({orderId: order.id, ...itemData}, {transaction}) of every
\* element, under Promise.all; bookId is a UUID column referencing books
ItemRows(orderId, data) ==
    {[id |-> <<orderId, k>>, orderId |-> orderId, bookId |-> data[k].bookId,
      quantity |-> data[k].quantity, price |-> data[k].price] : k \in 1..Len(data)}

ItemsCreate(r) ==
    /\ Quiet
    /\ req[r].pc = "itemsCreate"
    /\ \/ \E R \in CatchBlock(req[r]) : Step(r, R)
       \/ /\ \A k \in 1..Len(req[r].orderItemsData) : req[r].orderItemsData[k].bookId \in Books
          /\ Step(r, [req[r] EXCEPT
                        !.wItems = ItemRows(req[r].orderId, req[r].orderItemsData),
                        !.pc = IF req[r].kind = "createOrder" THEN "cartDestroy"
                               ELSE "commit"])
    /\ UNCHANGED <<books, cart, orders, orderItems, edits, sent, started>>

\* a DELETE with no where clause
CartRowsOf_All(userId) == {c.id : c \in cart}

\* where: {userId: req.userId}
CartRowsOf(userId) == {c.id : c \in {x \in cart : x.userId = userId}}

\* a checkout that leaves the cart rows in place
CartDestroy_Skipped(r) ==
    /\ Quiet
    /\ req[r].pc = "cartDestroy"
    /\ Step(r, [req[r] EXCEPT !.pc = "commit"])
    /\ UNCHANGED <<books, cart, orders, orderItems, edits, sent, started>>

\* Cart.destroy({where: {userId}, transaction}): deletes the owner's rows
\* that are committed when the statement runs; waits for rows another
\* transaction's DELETE has locked
CartDestroy(r) ==
    /\ Quiet
    /\ req[r].pc = "cartDestroy"
    /\ LET mine == CartRowsOf(req[r].userId)
       IN \/ \E R \in CatchBlock(req[r]) : Step(r, R)
          \/ /\ mine \cap LockedByOther(r) = {}
             /\ Step(r, [req[r] EXCEPT !.wCartDel = mine, !.pc = "commit"])
    /\ UNCHANGED <<books, cart, orders, orderItems, edits, sent, started>>

\* a commit error that is swallowed: the handler goes on as after a commit
CommitFailed_Swallowed(R) ==
    {[R EXCEPT !.tx = "commit_failed", !.wOrders = {}, !.wItems = {}, !.wCartDel = {},
               !.pc = "reload"]}

\* transaction.commit() throws: the transaction is finished, nothing is
\* written, and control is in the catch block
CommitFailed(R) ==
    CatchBlock([R EXCEPT !.tx = "commit_failed", !.wOrders = {}, !.wItems = {},
                         !.wCartDel = {}])

\* transaction.commit(): the transaction's writes become the committed rows
Commit(r) ==
    /\ Quiet
    /\ req[r].pc = "commit"
    /\ \/ /\ \E R \in CommitFailed(req[r]) : Step(r, R)
          /\ UNCHANGED <<cart, orders, orderItems>>
       \/ /\ orders' = orders \cup req[r].wOrders
          /\ orderItems' = orderItems \cup req[r].wItems
          /\ cart' = {c \in cart : c.id \notin req[r].wCartDel}
          /\ Step(r, [req[r] EXCEPT !.tx = "commit", !.wOrders = {}, !.wItems = {},
                                    !.wCartDel = {}, !.pc = "reload"])
    /\ UNCHANGED <<books, edits, sent, started>>

\* Order.findByPk(order.id, {include: items}) after the commit
Reload(r) ==
    /\ Quiet
    /\ req[r].pc = "reload"
    /\ \/ \E R \in CatchBlock(req[r]) : Step(r, R)
       \/ Step(r, [req[r] EXCEPT
                     !.completeOrder = IF \E o \in orders : o.id = req[r].orderId
                                       THEN req[r].orderId ELSE 0,
                     !.pc = IF req[r].kind = "createOrder" THEN "notifyCustomer"
                            ELSE "respond"])
    /\ UNCHANGED <<books, cart, orders, orderItems, edits, sent, started>>

\* the sends without the try of sendOrderNotifications: a send that throws
\* reaches the catch block of the handler
Notified_Throws(R, ok, next) ==
    IF ok THEN {[R EXCEPT !.pc = next]} ELSE CatchBlock(R)

\* sendOrderNotifications: both sends are inside one try; a send that throws
\* goes to its catch, which logs and returns, so the handler goes on to answer
Notified(R, ok, next) ==
    {[R EXCEPT !.pc = IF ok THEN next ELSE "respond"]}

\* sendCustomerOrderConfirmation(order): emailService.sendOrderConfirmation
NotifyCustomer(r) ==
    /\ Quiet
    /\ req[r].pc = "notifyCustomer"
    /\ \E ok \in BOOLEAN :
         /\ sent' = sent \cup {[orderId |-> req[r].completeOrder, type |-> "customer",
                                ok |-> ok]}
         /\ \E R \in Notified(req[r], ok, "notifyAdmin") : Step(r, R)
    /\ UNCHANGED <<books, cart, orders, orderItems, edits, started>>

\* sendAdminOrderNotification(order), reached when the customer mail did not
\* throw: emailService.sendAdminNotification
NotifyAdmin(r) ==
    /\ Quiet
    /\ req[r].pc = "notifyAdmin"
    /\ \E ok \in BOOLEAN :
         /\ sent' = sent \cup {[orderId |-> req[r].completeOrder, type |-> "admin",
                                ok |-> ok]}
         /\ \E R \in Notified(req[r], ok, "respond") : Step(r, R)
    /\ UNCHANGED <<books, cart, orders, orderItems, edits, started>>

\* res.status(201).json({success: true, data: completeOrder})
Respond(r) ==
    /\ Quiet
    /\ req[r].pc = "respond"
    /\ Step(r, Reply(req[r], "201"))
    /\ UNCHANGED <<books, cart, orders, orderItems, edits, sent, started>>

\* ------------------------------------------------------------- cancelOrder
\* a lookup by id alone
FindOrder_AnyOwner(orderId, userId) == {o \in orders : o.id = orderId}

\* Order.findOne({where: {id: orderId, userId: req.userId}})
FindOrder(orderId, userId) == {o \in orders : o.id = orderId /\ o.userId = userId}

\* the cancel handler without its status check
StartCancel_NoStatusCheck(r) ==
    /\ CanStart(r)
    /\ \E u \in Callers, orderId \in OrderIdInputs :
         LET R == [IdleReq EXCEPT !.kind = "cancel", !.userId = u, !.paramId = orderId]
             found == FindOrder(orderId, u)
         IN \/ Accept(r, Reply(R, "500"))
            \/ /\ found = {}
               /\ Accept(r, Reply(R, "404"))
            \/ \E order \in found : Accept(r, [R EXCEPT !.pc = "cancelSave"])
    /\ UNCHANGED <<books, cart, orders, orderItems, edits, sent>>

\* PUT /:orderId/cancel: Order.findOne({where: {id, userId}}), the status check
StartCancel(r) ==
    /\ CanStart(r)
    /\ \E u \in Callers, orderId \in OrderIdInputs :
         LET R == [IdleReq EXCEPT !.kind = "cancel", !.userId = u, !.paramId = orderId]
             found == FindOrder(orderId, u)
         IN \/ Accept(r, Reply(R, "500"))
            \/ /\ found = {}
               /\ Accept(r, Reply(R, "404"))
            \/ \E order \in found :
                 Accept(r, IF order.status # "pending"
                         THEN Reply([R EXCEPT !.detail = order.status], "400_status")
                         ELSE [R EXCEPT !.pc = "cancelSave"])
    /\ UNCHANGED <<books, cart, orders, orderItems, edits, sent>>

\* a save that writes nothing and answers success
CancelSave_NoWrite(r) ==
    /\ Quiet
    /\ req[r].pc = "cancelSave"
    /\ Step(r, Reply(req[r], "200"))
    /\ UNCHANGED <<books, cart, orders, orderItems, edits, sent, started>>

\* order.status = "cancelled"; order.save()   (UPDATE of the status column by id)
CancelSave(r) ==
    /\ Quiet
    /\ req[r].pc = "cancelSave"
    /\ \/ /\ Step(r, Reply(req[r], "500"))
          /\ UNCHANGED orders
       \/ /\ orders' = {IF o.id = req[r].paramId THEN [o EXCEPT !.status = "cancelled"]
                        ELSE o : o \in orders}
          /\ Step(r, Reply(req[r], "200"))
    /\ UNCHANGED <<books, cart, orderItems, edits, sent, started>>

\* ----------------------------------------------------------------- reorder
\* Order.findOne({where: {id, userId}, include: items with book}): the items
\* of the original order, each joined with its book as it is now
ItemsWithBooks(orderId) ==
    LET rows == {[id |-> i.id, bookId |-> i.bookId, quantity |-> i.quantity,
                  price |-> i.price,
                  book |-> [id |-> i.bookId, title |-> books[i.bookId].title,
                            price |-> books[i.bookId].price,
                            availability |-> books[i.bookId].availability]] :
                 i \in {x \in orderItems : x.orderId = orderId}}
    IN SeqsOf(rows)

\* the loop copying the stored line price instead of reading the book's
RECURSIVE ReorderLoop_StoredPrice(_, _, _, _)
ReorderLoop_StoredPrice(items, i, totalAmount, newOrderItemsData) ==
    IF i > Len(items)
    THEN [ok |-> TRUE, title |-> "", totalAmount |-> totalAmount,
          orderItemsData |-> newOrderItemsData]
    ELSE LET item == items[i]
             book == item.book
         IN IF book.availability # "available"
            THEN [ok |-> FALSE, title |-> book.title, totalAmount |-> totalAmount,
                  orderItemsData |-> newOrderItemsData]
            ELSE ReorderLoop_StoredPrice(items, i + 1,
                     totalAmount + item.price * item.quantity,
                     Append(newOrderItemsData,
                            [bookId |-> ToNumber(book.id), quantity |-> item.quantity,
                             price |-> item.price]))

\* the loop with the availability test narrowed to "out_of_stock"
RECURSIVE ReorderLoop_OnlyOutOfStock(_, _, _, _)
ReorderLoop_OnlyOutOfStock(items, i, totalAmount, newOrderItemsData) ==
    IF i > Len(items)
    THEN [ok |-> TRUE, title |-> "", totalAmount |-> totalAmount,
          orderItemsData |-> newOrderItemsData]
    ELSE LET item == items[i]
             book == item.book
         IN IF book.availability = "out_of_stock"
            THEN [ok |-> FALSE, title |-> book.title, totalAmount |-> totalAmount,
                  orderItemsData |-> newOrderItemsData]
            ELSE ReorderLoop_OnlyOutOfStock(items, i + 1,
                     totalAmount + PriceOrZero(book.price) * item.quantity,
                     Append(newOrderItemsData,
                            [bookId |-> ToNumber(book.id), quantity |-> item.quantity,
                             price |-> PriceOrZero(book.price)]))

\* for (const item of originalOrder.items) { availability check; total; push }
RECURSIVE ReorderLoop(_, _, _, _)
ReorderLoop(items, i, totalAmount, newOrderItemsData) ==
    IF i > Len(items)
    THEN [ok |-> TRUE, title |-> "", totalAmount |-> totalAmount,
          orderItemsData |-> newOrderItemsData]
    ELSE LET item == items[i]
             book == item.book
         IN IF book.availability # "available"
            THEN [ok |-> FALSE, title |-> book.title, totalAmount |-> totalAmount,
                  orderItemsData |-> newOrderItemsData]
            ELSE ReorderLoop(items, i + 1,
                     totalAmount + PriceOrZero(book.price) * item.quantity,
                     Append(newOrderItemsData,
                            [bookId |-> ToNumber(book.id), quantity |-> item.quantity,
                             price |-> PriceOrZero(book.price)]))

\* POST /:orderId/reorder: open the transaction, then the request validation
StartReorder(r) ==
    /\ CanStart(r)
    /\ \E u \in Callers, orderId \in OrderIdInputs, valid \in BOOLEAN :
         LET R == [IdleReq EXCEPT !.kind = "reorder", !.userId = u, !.tx = "open"]
         IN Accept(r, IF valid THEN [R EXCEPT !.paramId = orderId, !.pc = "reorderLoad"]
                      ELSE Reply(Rollback(R), "400_validation"))
    /\ UNCHANGED <<books, cart, orders, orderItems, edits, sent>>

\* the read of the original order and the availability/total loop
ReorderLoad(r) ==
    /\ Quiet
    /\ req[r].pc = "reorderLoad"
    /\ LET found == FindOrder(req[r].paramId, req[r].userId)
       IN \/ \E R \in CatchBlock(req[r]) : Step(r, R)
          \/ /\ found = {}
             /\ Step(r, Reply(Rollback(req[r]), "404"))
          \/ /\ found # {}
             /\ \E items \in ItemsWithBooks(req[r].paramId) :
                  LET res == ReorderLoop(items, 1, 0, <<>>)
                      R == [req[r] EXCEPT !.origItems = items]
                  IN Step(r, IF ~res.ok
                             THEN Reply(Rollback([R EXCEPT !.detail = res.title]),
                                        "400_unavailable")
                             ELSE [R EXCEPT !.orderItemsData = res.orderItemsData,
                                            !.totalAmount = res.totalAmount,
                                            !.pc = "orderCreate"])
    /\ UNCHANGED <<books, cart, orders, orderItems, edits, sent, started>>

\* -------------------------------------------------------------------- cart
\* the add handler without the quantity validation
StartAdd_NoValidation(r) ==
    /\ CanStart(r)
    /\ \E u \in Callers, bookId \in Books, quantity \in 0..MaxQtyInput :
         LET V == [IdleReq EXCEPT !.kind = "add", !.userId = u]
             R == [V EXCEPT !.bookId = bookId, !.quantity = quantity]
         IN Accept(r, IF books[bookId].availability # "available"
                      THEN Reply(R, "400_not_available")
                      ELSE [R EXCEPT !.pc = "addFind"])
    /\ UNCHANGED <<books, cart, orders, orderItems, edits, sent>>

\* POST /add: validation, Book.findByPk and the availability check
StartAdd(r) ==
    /\ CanStart(r)
    /\ \E u \in Callers, bookId \in Books, quantity \in 0..MaxQtyInput :
         LET V == [IdleReq EXCEPT !.kind = "add", !.userId = u]
             R == [V EXCEPT !.bookId = bookId, !.quantity = quantity]
         IN Accept(r, IF quantity < 1 THEN Reply(V, "400_validation")
                      ELSE IF books[bookId].availability # "available"
                           THEN Reply(R, "400_not_available")
                           ELSE [R EXCEPT !.pc = "addFind"])
    /\ UNCHANGED <<books, cart, orders, orderItems, edits, sent>>

\* Cart.findOne({where: {userId, bookId}}): one matching row, or null
AddFind(r) ==
    /\ Quiet
    /\ req[r].pc = "addFind"
    /\ LET found == {c \in cart : c.userId = req[r].userId /\ c.bookId = req[r].bookId}
       IN \/ Step(r, Reply(req[r], "500"))
          \/ /\ found = {}
             /\ Step(r, [req[r] EXCEPT !.row = NoRow, !.pc = "addWrite"])
          \/ \E c \in found : Step(r, [req[r] EXCEPT !.row = c, !.pc = "addWrite"])
    /\ UNCHANGED <<books, cart, orders, orderItems, edits, sent, started>>

\* a repeat add that replaces the row: deletes it and creates a new one
AddWrite_Replace(r) ==
    /\ Quiet
    /\ req[r].pc = "addWrite"
    /\ LET R == req[r]
       IN \/ /\ Step(r, Reply(R, "500"))
             /\ UNCHANGED cart
          \/ /\ R.row.id # 0
             /\ R.row.id \notin Locked
             /\ R.row.quantity + R.quantity <= MaxLineQty
             /\ FreshCartIds # {}
             /\ cart' = {c \in cart : c.id # R.row.id}
                         \cup {[id |-> Least(FreshCartIds), userId |-> R.userId,
                                bookId |-> R.bookId,
                                quantity |-> R.row.quantity + R.quantity]}
             /\ Step(r, Reply(R, "200"))
          \/ /\ R.row.id = 0
             /\ FreshCartIds # {}
             /\ cart' = cart \cup {[id |-> Least(FreshCartIds), userId |-> R.userId,
                                    bookId |-> R.bookId, quantity |-> R.quantity]}
             /\ Step(r, Reply(R, "201"))
    /\ UNCHANGED <<books, orders, orderItems, edits, sent, started>>

\* existingCartItem.quantity += Number(quantity); save()   (UPDATE by id), or
\* Cart.create({userId, bookId, quantity: Number(quantity)})
AddWrite(r) ==
    /\ Quiet
    /\ req[r].pc = "addWrite"
    /\ LET R == req[r]
       IN \/ /\ Step(r, Reply(R, "500"))
             /\ UNCHANGED cart
          \/ /\ R.row.id # 0
             /\ R.row.id \notin Locked
             /\ R.row.quantity + R.quantity <= MaxLineQty
             /\ cart' = {IF c.id = R.row.id
                         THEN [c EXCEPT !.quantity = R.row.quantity + R.quantity]
                         ELSE c : c \in cart}
             /\ Step(r, Reply(R, "200"))
          \/ /\ R.row.id = 0
             /\ FreshCartIds # {}
             /\ cart' = cart \cup {[id |-> Least(FreshCartIds), userId |-> R.userId,
                                    bookId |-> R.bookId, quantity |-> R.quantity]}
             /\ Step(r, Reply(R, "201"))
    /\ UNCHANGED <<books, orders, orderItems, edits, sent, started>>

\* PUT /update/:itemId: validation and Cart.findOne({where: {id, userId}})
StartUpdate(r) ==
    /\ CanStart(r)
    /\ \E u \in Callers, itemId \in CartIdInputs, quantity \in 0..MaxQtyInput :
         LET V == [IdleReq EXCEPT !.kind = "update", !.userId = u]
             R == [V EXCEPT !.paramId = itemId, !.quantity = quantity]
             found == {c \in cart : c.id = itemId /\ c.userId = u}
         IN \/ /\ quantity < 1
               /\ Accept(r, Reply(V, "400_validation"))
            \/ /\ quantity >= 1
               /\ Accept(r, Reply(R, "500"))
            \/ /\ quantity >= 1 /\ found = {}
               /\ Accept(r, Reply(R, "404"))
            \/ /\ quantity >= 1
               /\ \E c \in found : Accept(r, [R EXCEPT !.row = c, !.pc = "updateWrite"])
    /\ UNCHANGED <<books, cart, orders, orderItems, edits, sent>>

\* cartItem.quantity = Number(quantity); save()
UpdateWrite(r) ==
    /\ Quiet
    /\ req[r].pc = "updateWrite"
    /\ \/ /\ Step(r, Reply(req[r], "500"))
          /\ UNCHANGED cart
       \/ /\ req[r].row.id \notin Locked
          /\ cart' = {IF c.id = req[r].row.id THEN [c EXCEPT !.quantity = req[r].quantity]
                      ELSE c : c \in cart}
          /\ Step(r, Reply(req[r], "200"))
    /\ UNCHANGED <<books, orders, orderItems, edits, sent, started>>

\* the remove handler looking the row up by id alone
StartRemove_AnyOwner(r) ==
    /\ CanStart(r)
    /\ \E u \in Callers, itemId \in CartIdInputs :
         LET R == [IdleReq EXCEPT !.kind = "remove", !.userId = u, !.paramId = itemId]
             found == {c \in cart : c.id = itemId}
         IN \/ Accept(r, Reply(R, "500"))
            \/ /\ found = {}
               /\ Accept(r, Reply(R, "404"))
            \/ \E c \in found : Accept(r, [R EXCEPT !.row = c, !.pc = "removeWrite"])
    /\ UNCHANGED <<books, cart, orders, orderItems, edits, sent>>

\* DELETE /remove/:itemId: Cart.findOne({where: {id, userId}})
StartRemove(r) ==
    /\ CanStart(r)
    /\ \E u \in Callers, itemId \in CartIdInputs :
         LET R == [IdleReq EXCEPT !.kind = "remove", !.userId = u, !.paramId = itemId]
             found == {c \in cart : c.id = itemId /\ c.userId = u}
         IN \/ Accept(r, Reply(R, "500"))
            \/ /\ found = {}
               /\ Accept(r, Reply(R, "404"))
            \/ \E c \in found : Accept(r, [R EXCEPT !.row = c, !.pc = "removeWrite"])
    /\ UNCHANGED <<books, cart, orders, orderItems, edits, sent>>

\* cartItem.destroy()
RemoveWrite(r) ==
    /\ Quiet
    /\ req[r].pc = "removeWrite"
    /\ \/ /\ Step(r, Reply(req[r], "500"))
          /\ UNCHANGED cart
       \/ /\ req[r].row.id \notin Locked
          /\ cart' = {c \in cart : c.id # req[r].row.id}
          /\ Step(r, Reply(req[r], "200"))
    /\ UNCHANGED <<books, orders, orderItems, edits, sent, started>>

\* DELETE /clear: Cart.destroy({where: {userId}})
ClearCart(r) ==
    /\ CanStart(r)
    /\ \E u \in Callers :
         LET R == [IdleReq EXCEPT !.kind = "clear", !.userId = u]
             mine == {c \in cart : c.userId = u}
         IN \/ /\ Accept(r, Reply(R, "500"))
               /\ UNCHANGED cart
            \/ /\ {c.id : c \in mine} \cap Locked = {}
               /\ cart' = cart \ mine
               /\ Accept(r, Reply(R, "200"))
    /\ UNCHANGED <<books, orders, orderItems, edits, sent>>

\* the handler has answered and returns: the slot is free again
Retire(r) ==
    /\ req[r].pc = "done"
    /\ req' = [req EXCEPT ![r] = IdleReq]
    /\ UNCHANGED <<books, cart, orders, orderItems, edits, sent, started>>

\* ----------------------------------------------------------------- catalog
\* a price edit that also rewrites the price of the book's order lines
EditPrice_Cascade(b) ==
    /\ Quiet
    /\ edits < MaxEdits
    /\ \E price \in Prices \ {books[b].price} :
         /\ books' = [books EXCEPT ![b] = [@ EXCEPT !.price = price]]
         /\ orderItems' = {IF i.bookId = b THEN [i EXCEPT !.price = PriceOrZero(price)]
                           ELSE i : i \in orderItems}
    /\ edits' = edits + 1
    /\ UNCHANGED <<cart, orders, sent, started, req>>

\* the catalog is maintained outside the request handlers: the price and the
\* availability column of a book take any value of their type
EditPrice(b) ==
    /\ Quiet
    /\ edits < MaxEdits
    /\ \E price \in Prices \ {books[b].price} :
         books' = [books EXCEPT ![b] = [@ EXCEPT !.price = price]]
    /\ edits' = edits + 1
    /\ UNCHANGED <<cart, orders, orderItems, sent, started, req>>

EditAvailability(b) ==
    /\ Quiet
    /\ edits < MaxEdits
    /\ \E availability \in Availability \ {books[b].availability} :
         books' = [books EXCEPT ![b] = [@ EXCEPT !.availability = availability]]
    /\ edits' = edits + 1
    /\ UNCHANGED <<cart, orders, orderItems, sent, started, req>>

\* the status column of an order is also written outside the request
\* handlers, by the fulfilment of the order: pending, confirmed, shipped and
\* delivered follow each other, and a cancelled order is not fulfilled
StatusRank(status) ==
    CASE status = "pending" -> 0
      [] status = "confirmed" -> 1
      [] status = "shipped" -> 2
      [] status = "delivered" -> 3
      [] OTHER -> 4

Fulfil(id) ==
    /\ Quiet
    /\ edits < MaxEdits
    /\ \E o \in orders :
         /\ o.id = id
         /\ \E status \in {"confirmed", "shipped", "delivered"} :
              /\ StatusRank(o.status) < StatusRank(status)
              /\ orders' = (orders \ {o}) \cup {[o EXCEPT !.status = status]}
    /\ edits' = edits + 1
    /\ UNCHANGED <<books, cart, orderItems, sent, started, req>>

\* ----------------------------------------------------------- specification
Init ==
    /\ books = [b \in Books |->
                  [title |-> IF b = "b1" THEN "A" ELSE "C",
                   price |-> IF b = "b1" THEN 12500 ELSE 7250,
                   availability |-> "available"]]
    /\ cart = {}
    /\ orders = {}
    /\ orderItems = {}
    /\ edits = 0
    /\ sent = {}
    /\ req = [r \in Reqs |-> IdleReq]
    /\ started = 0

Next ==
    \/ \E r \in Reqs : StartCreateOrder(r)
    \/ \E r \in Reqs : LoadCart(r)
    \/ \E r \in Reqs : OrderCreate(r)
    \/ \E r \in Reqs : ItemsCreate(r)
    \/ \E r \in Reqs : CartDestroy(r)
    \/ \E r \in Reqs : Commit(r)
    \/ \E r \in Reqs : Reload(r)
    \/ \E r \in Reqs : NotifyCustomer(r)
    \/ \E r \in Reqs : NotifyAdmin(r)
    \/ \E r \in Reqs : Respond(r)
    \/ \E r \in Reqs : StartCancel(r)
    \/ \E r \in Reqs : CancelSave(r)
    \/ \E r \in Reqs : StartReorder(r)
    \/ \E r \in Reqs : ReorderLoad(r)
    \/ \E r \in Reqs : StartAdd(r)
    \/ \E r \in Reqs : AddFind(r)
    \/ \E r \in Reqs : AddWrite(r)
    \/ \E r \in Reqs : StartUpdate(r)
    \/ \E r \in Reqs : UpdateWrite(r)
    \/ \E r \in Reqs : StartRemove(r)
    \/ \E r \in Reqs : RemoveWrite(r)
    \/ \E r \in Reqs : ClearCart(r)
    \/ \E r \in Reqs : Retire(r)
    \/ \E b \in Books : EditPrice(b)
    \/ \E b \in Books : EditAvailability(b)
    \/ \E id \in 1..MaxOrders : Fulfil(id)

Spec == Init /\ [][Next]_vars

\* one request at a time: every request is served by the first slot, so a
\* request is accepted only when no handler is running
NextSeq ==
    \/ StartCreateOrder(1)
    \/ LoadCart(1)
    \/ OrderCreate(1)
    \/ ItemsCreate(1)
    \/ CartDestroy(1)
    \/ Commit(1)
    \/ Reload(1)
    \/ NotifyCustomer(1)
    \/ NotifyAdmin(1)
    \/ Respond(1)
    \/ StartCancel(1)
    \/ CancelSave(1)
    \/ StartReorder(1)
    \/ ReorderLoad(1)
    \/ StartAdd(1)
    \/ AddFind(1)
    \/ AddWrite(1)
    \/ StartUpdate(1)
    \/ UpdateWrite(1)
    \/ StartRemove(1)
    \/ RemoveWrite(1)
    \/ ClearCart(1)
    \/ Retire(1)
    \/ \E b \in Books : EditPrice(b)
    \/ \E b \in Books : EditAvailability(b)
    \/ \E id \in 1..MaxOrders : Fulfil(id)

SpecSeq == Init /\ [][NextSeq]_vars

\* the state after the first user has put one copy of the first book in the
\* cart and checked out, both mails sent: one pending order of one line
InitOrdered ==
    /\ books = [b \in Books |->
                  [title |-> IF b = "b1" THEN "A" ELSE "C",
                   price |-> IF b = "b1" THEN 12500 ELSE 7250,
                   availability |-> "available"]]
    /\ cart = {}
    /\ orders = {[id |-> 1, userId |-> "u1", totalAmount |-> 12500, status |-> "pending"]}
    /\ orderItems = {[id |-> <<1, 1>>, orderId |-> 1, bookId |-> "b1", quantity |-> 1,
                      price |-> 12500]}
    /\ edits = 0
    /\ sent = {[orderId |-> 1, type |-> t, ok |-> TRUE] : t \in {"customer", "admin"}}
    /\ req = [r \in Reqs |-> IdleReq]
    /\ started = 0

SpecOrdered == InitOrdered /\ [][Next]_vars

\* ------------------------------------------------------------- properties
\* the rows of a user's cart, and the lines of an order
CartOf(userId) == {c \in cart : c.userId = userId}
LinesOf(orderId) == {i \in orderItems : i.orderId = orderId}

\* a createOrder call that has answered with one of its failure answers
FailedCreateOrder(R) ==
    /\ R.kind = "createOrder"
    /\ R.pc = "done"
    /\ R.response \in {"400_validation", "400_empty", "400_unavailable", "500"}

\* the handler in slot r takes a step of a createOrder call
CreateOrderStep(r) ==
    /\ req'[r] # req[r]
    /\ req[r].kind = "createOrder" \/ req'[r].kind = "createOrder"

\* the step is the successful commit of the handler in slot r
CommitStep(r) == req[r].tx = "open" /\ req'[r].tx = "commit"

\* sum of quantity * price over a set of order lines
RECURSIVE SumLines(_)
SumLines(S) ==
    IF S = {} THEN 0
    ELSE LET x == CHOOSE y \in S : TRUE
         IN x.quantity * x.price + SumLines(S \ {x})

\* C1: createOrder is all-or-nothing. A call that has answered with a failure
\* (validation, empty cart, unavailable book, storage error) has rolled its
\* transaction back, holds no pending write, and no Order row and no order
\* line carries the id it may have drawn; and every step of a createOrder
\* handler other than its successful commit leaves the cart, orders and
\* order-line tables exactly as they were.
C1_Failed ==
    \A r \in Reqs : FailedCreateOrder(req[r]) =>
        /\ req[r].tx = "rollback"
        /\ req[r].wOrders = {} /\ req[r].wItems = {} /\ req[r].wCartDel = {}
        /\ \A o \in orders : o.id # req[r].orderId
        /\ LinesOf(req[r].orderId) = {}
C1_Frame ==
    \A r \in Reqs : CreateOrderStep(r) /\ ~CommitStep(r) =>
        UNCHANGED <<cart, orders, orderItems>>
C1_AllOrNothing == []C1_Failed /\ [][C1_Frame]_vars

\* a storage error after Order.create, with lines in the owner's cart
C1_Witness ==
    \E r \in Reqs : /\ FailedCreateOrder(req[r])
                    /\ req[r].response = "500"
                    /\ req[r].orderId # 0
                    /\ CartOf(req[r].userId) # {}

\* C2: a createOrder call whose loaded cart holds a line of a book that is
\* not "available" has answered with the book-unavailable error naming the
\* title of such a book, is rolled back, never created an Order or a line
\* (it drew no order id and holds no write), and the owner's cart rows are
\* the loaded ones, whatever lines came earlier in the loop.
C2_Unavailable ==
    \A r \in Reqs :
        LET items == req[r].cartItems
            bad == {k \in 1..Len(items) : items[k].book.availability # "available"}
        IN req[r].kind = "createOrder" /\ bad # {} =>
             /\ req[r].pc = "done"
             /\ req[r].response = "400_unavailable"
             /\ \E k \in bad : req[r].detail = items[k].book.title
             /\ req[r].tx = "rollback"
             /\ req[r].orderId = 0
             /\ req[r].wOrders = {} /\ req[r].wItems = {} /\ req[r].wCartDel = {}
             /\ {[id |-> c.id, bookId |-> c.bookId, quantity |-> c.quantity] :
                    c \in CartOf(req[r].userId)}
                = {[id |-> items[k].id, bookId |-> items[k].bookId,
                    quantity |-> items[k].quantity] : k \in 1..Len(items)}

\* an available line was processed first, the second line's book is not
C2_Witness ==
    \E r \in Reqs : /\ req[r].kind = "createOrder"
                    /\ req[r].response = "400_unavailable"
                    /\ Len(req[r].cartItems) = 2
                    /\ req[r].cartItems[1].book.availability = "available"
                    /\ req[r].cartItems[2].book.availability # "available"
                    /\ Cardinality(CartOf(req[r].userId)) = 2

\* C3: createOrder of an owner with no cart line. The step that reads the
\* cart when the owner has none ends the call rolled back, with the
\* empty-cart answer (or the storage-error answer, when the read itself
\* throws), and writes nothing; a call that answered "empty cart" drew no
\* order id and holds no write; and no call goes past the read with an empty
\* list of lines.
C3_Read ==
    \A r \in Reqs :
        /\ req[r].kind = "createOrder" /\ req[r].pc = "loadCart"
        /\ req'[r] # req[r]
        /\ CartOf(req[r].userId) = {}
        => /\ req'[r].pc = "done"
           /\ req'[r].response \in {"400_empty", "500"}
           /\ req'[r].tx = "rollback"
           /\ UNCHANGED <<cart, orders, orderItems>>
C3_Answered ==
    \A r \in Reqs :
        /\ req[r].kind = "createOrder" /\ req[r].response = "400_empty"
             => /\ req[r].tx = "rollback" /\ req[r].orderId = 0
                /\ req[r].wOrders = {} /\ req[r].wItems = {}
                /\ Len(req[r].cartItems) = 0
        /\ req[r].kind = "createOrder" /\ req[r].pc \notin {"loadCart", "done"}
             => Len(req[r].cartItems) > 0
C3_EmptyCart == []C3_Answered /\ [][C3_Read]_vars

C3_Witness ==
    \E r \in Reqs : /\ req[r].kind = "createOrder"
                    /\ req[r].response = "400_empty"
                    /\ req[r].pc = "done"

\* C4: with one request served at a time, a createOrder call that has
\* answered success had loaded a cart that was not empty, and the owner's
\* cart holds no row when it answers; and no step of a createOrder handler
\* changes a cart row of another user.
C4_Success ==
    \A r \in Reqs :
        req[r].kind = "createOrder" /\ req[r].pc = "done" /\ req[r].response = "201" =>
            /\ Len(req[r].cartItems) > 0
            /\ CartOf(req[r].userId) = {}
C4_Others ==
    \A r \in Reqs : CreateOrderStep(r) =>
        \A u \in Users \ {req'[r].userId} :
            {c \in cart' : c.userId = u} = {c \in cart : c.userId = u}
C5_TotalIsSumOfLines ==
    /\ \A o \in orders : o.totalAmount = Round2(SumLines(LinesOf(o.id)))
    /\ \A r \in Reqs :
         req[r].kind = "createOrder" /\ req[r].tx = "commit" =>
            \A k \in 1..Len(req[r].cartItems) :
                req[r].cartItems[k].book.price = NullPrice =>
                    \E i \in LinesOf(req[r].orderId) :
                        /\ i.id = <<req[r].orderId, k>>
                        /\ i.bookId = req[r].cartItems[k].bookId
                        /\ i.price = 0

\* an order of two lines: one of a book without a price, one of quantity 2
C5_Witness ==
    \E o \in orders :
        /\ \E i \in LinesOf(o.id) : i.price = 0
        /\ \E i \in LinesOf(o.id) : i.price > 0 /\ i.quantity = 2
        /\ o.totalAmount > 0

\* C6: the commit of a createOrder call adds exactly one Order row, with
\* status "pending" and the caller as owner, and exactly one order line per
\* cart line the call loaded, each with that cart line's book and quantity
\* and the price the book had when it was read (0 for no price).
C6_Commit ==
    \A r \in Reqs :
        req[r].kind = "createOrder" /\ CommitStep(r) =>
            LET items == req[r].cartItems
                newOrders == orders' \ orders
                newLines == orderItems' \ orderItems
            IN /\ Cardinality(newOrders) = 1
               /\ \A o \in newOrders : /\ o.id = req[r].orderId
                                       /\ o.userId = req[r].userId
                                       /\ o.status = "pending"
               /\ orders \subseteq orders' /\ orderItems \subseteq orderItems'
               /\ Cardinality(newLines) = Len(items)
               /\ \A i \in newLines : i.orderId = req[r].orderId
               /\ \A k \in 1..Len(items) :
                    \E i \in newLines :
                        /\ i.id = <<req[r].orderId, k>>
                        /\ i.bookId = items[k].bookId
                        /\ i.quantity = items[k].quantity
                        /\ i.price = PriceOrZero(items[k].book.price)
C6_OneLinePerCartLine == [][C6_Commit]_vars

\* a committed call of two cart lines, the catalog price of one of its books
\* having changed after the cart was read
C6_Witness ==
    \E r \in Reqs : /\ req[r].kind = "createOrder" /\ req[r].tx = "commit"
                    /\ Len(req[r].cartItems) = 2
                    /\ Cardinality(LinesOf(req[r].orderId)) = 2
                    /\ \E k \in 1..2 : books[req[r].cartItems[k].bookId].price
                                         # req[r].cartItems[k].book.price

\* C7: an order line, once it exists, keeps its order, book, quantity and
\* price through every step of every operation.
C7_Step ==
    \A i \in orderItems :
        \E j \in orderItems' : /\ j.id = i.id /\ j.orderId = i.orderId
                               /\ j.bookId = i.bookId
                               /\ j.quantity = i.quantity /\ j.price = i.price
C7_LinesFrozen == [][C7_Step]_vars

\* a line whose price is no longer the price of its book
C7_Witness ==
    \E i \in orderItems : i.price # PriceOrZero(books[i.bookId].price)

\* C8: checkout has two outcomes only. A createOrder call whose transaction
\* has committed answers success: it never ends with anything but the 201
\* answer carrying the order.
C8_CommittedMeansSuccess ==
    \A r \in Reqs :
        req[r].kind = "createOrder" /\ req[r].pc = "done" /\ req[r].tx = "commit" =>
            req[r].response = "201"

\* C9: a notifier call that fails after the commit is discarded. The call
\* whose order has a failed notification keeps its committed transaction,
\* attempts no rollback, skips at most to its answer, answers success, and
\* its Order and lines are persisted; and the notification and answer steps
\* write nothing to the cart, orders and order-line tables.
C9_Swallowed ==
    \A r \in Reqs :
        /\ req[r].kind = "createOrder" /\ req[r].tx = "commit"
        /\ \E n \in sent : n.orderId = req[r].orderId /\ ~n.ok
        => /\ ~req[r].rbOnFinished
           /\ req[r].pc \in {"respond", "done"}
           /\ req[r].pc = "done" => req[r].response = "201"
           /\ req[r].completeOrder = req[r].orderId
           /\ \E o \in orders : o.id = req[r].orderId
           /\ Cardinality(LinesOf(req[r].orderId)) = Len(req[r].cartItems)
C9_NoWrite ==
    \A r \in Reqs :
        req[r].pc \in {"notifyCustomer", "notifyAdmin", "respond"} /\ req'[r] # req[r] =>
            /\ UNCHANGED <<cart, orders, orderItems>>
            /\ req'[r].tx = "commit"
C9_NotifierFailureSwallowed == []C9_Swallowed /\ [][C9_NoWrite]_vars

\* the customer mail failed, or the admin mail failed after the customer
\* mail went out, and the call has answered
C9_Witness ==
    \E r \in Reqs : /\ req[r].kind = "createOrder" /\ req[r].pc = "done"
                    /\ req[r].response = "201"
                    /\ \E n \in sent : /\ n.orderId = req[r].orderId
                                       /\ n.type = "admin" /\ ~n.ok

\* C10: a notifier call is made only for a committed order. Every notifier
\* call on record names a persisted Order; the step that makes one is taken by
\* a createOrder handler whose transaction has committed, for its own order;
\* and no notifier call names the order id of a call that answered failure.
C10_OnlyCommitted ==
    /\ \A n \in sent : \E o \in orders : o.id = n.orderId
    /\ \A r \in Reqs : FailedCreateOrder(req[r]) =>
          \A n \in sent : n.orderId # req[r].orderId
C10_Dispatch ==
    sent' # sent =>
        \E r \in Reqs : /\ req[r].kind = "createOrder"
                        /\ req[r].tx = "commit"
                        /\ req'[r] # req[r]
                        /\ \E o \in orders : o.id = req[r].orderId
                        /\ sent \subseteq sent'
                        /\ \A n \in sent' \ sent : n.orderId = req[r].orderId
C10_NotifyAfterCommit == []C10_OnlyCommitted /\ [][C10_Dispatch]_vars

\* both notifier calls were made for an order, and a later createOrder call
\* was rolled back after drawing an order id
C10_Witness ==
    /\ \E n \in sent : n.type = "admin"
    /\ \E r \in Reqs : FailedCreateOrder(req[r]) /\ req[r].orderId # 0

\* the notifier calls on record for an order
SentFor(orderId, type) == {n \in sent : n.orderId = orderId /\ n.type = type}

\* the orders with an id that belong to a user
OwnedOrder(orderId, userId) ==
    {o \in orders : o.id = orderId /\ o.userId = userId}

\* the handler in slot r accepts a cancelOrder request in this step
CancelStarts(r) == req[r].pc = "idle" /\ req'[r].kind = "cancel"

\* C11: every createOrder call that answers success has attempted both
\* notifications, the customer confirmation and the admin notification,
\* whatever the outcome of the customer confirmation.
C11_BothAttempted ==
    \A r \in Reqs :
        req[r].kind = "createOrder" /\ req[r].pc = "done" /\ req[r].response = "201" =>
            /\ SentFor(req[r].orderId, "customer") # {}
            /\ SentFor(req[r].orderId, "admin") # {}

\* C12: cancelOrder on a pending order of the caller goes on to the save
\* (unless the read throws) and a save that answers success has left the
\* order "cancelled"; a cancelOrder that finds the order "cancelled" ends with
\* the invalid-state answer carrying "cancelled" and writes nothing; and a
\* cancelled order stays cancelled through every step.
C12_Start ==
    \A r \in Reqs : CancelStarts(r) =>
        \A o \in OwnedOrder(req'[r].paramId, req'[r].userId) :
            /\ o.status = "pending" =>
                 \/ req'[r].pc = "cancelSave"
                 \/ req'[r].pc = "done" /\ req'[r].response = "500"
            /\ o.status = "cancelled" =>
                 /\ req'[r].pc = "done"
                 /\ \/ req'[r].response = "500"
                    \/ req'[r].response = "400_status" /\ req'[r].detail = "cancelled"
                 /\ UNCHANGED orders
C12_Save ==
    \A r \in Reqs :
        req[r].pc = "cancelSave" /\ req'[r].response = "200" =>
            \E o \in orders' : o.id = req[r].paramId /\ o.status = "cancelled"
C12_Stays ==
    \A o \in orders : o.status = "cancelled" =>
        \E n \in orders' : n.id = o.id /\ n.status = "cancelled"
C12_Answered ==
    \A r \in Reqs :
        req[r].kind = "cancel" /\ req[r].pc = "done" /\ req[r].response = "200" =>
            \E o \in orders : /\ o.id = req[r].paramId /\ o.userId = req[r].userId
                              /\ o.status = "cancelled"
C12_CancelOnce == []C12_Answered /\ [][C12_Start /\ C12_Save /\ C12_Stays]_vars

\* a second cancelOrder on the order has answered "cancelled"
C12_Witness ==
    \E r \in Reqs : /\ req[r].kind = "cancel" /\ req[r].pc = "done"
                    /\ req[r].response = "400_status"
                    /\ req[r].detail = "cancelled"

\* C13: cancelOrder that finds the order in a status other than "pending"
\* ends with the invalid-state answer carrying that status (or the storage
\* error answer), and the step changes no order; the answered call names an
\* order that still has the reported status.
C13_Start ==
    \A r \in Reqs : CancelStarts(r) =>
        \A o \in OwnedOrder(req'[r].paramId, req'[r].userId) :
            o.status # "pending" =>
                /\ req'[r].pc = "done"
                /\ \/ req'[r].response = "500"
                   \/ req'[r].response = "400_status" /\ req'[r].detail = o.status
                /\ UNCHANGED <<orders, orderItems>>
C13_Answered ==
    \A r \in Reqs :
        req[r].kind = "cancel" /\ req[r].response = "400_status" =>
            /\ req[r].pc = "done"
            /\ req[r].detail \in OrderStatus \ {"pending"}
            /\ \E o \in orders : /\ o.id = req[r].paramId /\ o.userId = req[r].userId
                                 /\ o.status = req[r].detail
C13_NotPending == []C13_Answered /\ [][C13_Start]_vars

\* the order was shipped, and cancelOrder answered so
C13_Witness ==
    \E r \in Reqs : /\ req[r].kind = "cancel" /\ req[r].pc = "done"
                    /\ req[r].response = "400_status"
                    /\ req[r].detail = "shipped"

\* the handler in slot r reads the order of a cancelOrder or reorder request
OrderLookup(r) ==
    \/ CancelStarts(r)
    \/ req[r].pc = "reorderLoad" /\ req'[r] # req[r]

\* C14: cancelOrder and reorder look the order up by id and caller. When no
\* order has the id, or the order is another user's, the lookup step ends the
\* call with not-found (or the storage error answer), and changes no order
\* and no order line; a call that answered not-found drew no order id and
\* holds no write.
C14_Lookup ==
    \A r \in Reqs :
        OrderLookup(r) /\ OwnedOrder(req'[r].paramId, req'[r].userId) = {} =>
            /\ req'[r].pc = "done"
            /\ req'[r].response \in {"404", "500"}
            /\ UNCHANGED <<orders, orderItems>>
C14_Answered ==
    \A r \in Reqs :
        req[r].kind \in {"cancel", "reorder"} /\ req[r].response = "404" =>
            /\ req[r].pc = "done"
            /\ OwnedOrder(req[r].paramId, req[r].userId) = {}
            /\ req[r].tx \in {"none", "rollback"}
            /\ req[r].orderId = 0
            /\ req[r].wOrders = {} /\ req[r].wItems = {}
C14_ScopedToCaller == []C14_Answered /\ [][C14_Lookup]_vars

\* a user asked to cancel or reorder a pending order of another user
C14_Witness ==
    \E r \in Reqs : /\ req[r].kind \in {"cancel", "reorder"}
                    /\ req[r].response = "404"
                    /\ \E o \in orders : /\ o.id = req[r].paramId
                                         /\ o.userId # req[r].userId
                                         /\ o.status = "pending"

\* sum of quantity * (price || 0) over the first k loaded items
RECURSIVE SumAtCurrentPrice(_, _)
SumAtCurrentPrice(items, k) ==
    IF k = 0 THEN 0
    ELSE items[k].quantity * PriceOrZero(items[k].book.price)
         + SumAtCurrentPrice(items, k - 1)

\* the handler in slot r takes a step of a reorder call
ReorderStep(r) ==
    /\ req'[r] # req[r]
    /\ req[r].kind = "reorder" \/ req'[r].kind = "reorder"

C16_ReorderUnavailable ==
    \A r \in Reqs :
        LET items == req[r].origItems
            bad == {k \in 1..Len(items) : items[k].book.availability # "available"}
        IN req[r].kind = "reorder" /\ bad # {} =>
             /\ req[r].pc = "done"
             /\ req[r].response = "400_unavailable"
             /\ \E k \in bad : req[r].detail = items[k].book.title
             /\ req[r].tx = "rollback"
             /\ req[r].orderId = 0
             /\ req[r].wOrders = {} /\ req[r].wItems = {}

C16_Witness ==
    \E r \in Reqs : /\ req[r].kind = "reorder" /\ req[r].pc = "done"
                    /\ req[r].response = "400_unavailable"
                    /\ Len(req[r].origItems) > 0
                    /\ Cardinality(orders) = 1

\* C17: every step of a reorder handler leaves the cart and the notifier
\* record as they are and keeps every Order row and every order line that
\* exists; a step other than its commit adds no row either, and its commit
\* adds exactly one Order, the caller's, with one line per original line; a
\* reorder call that answered a failure left no row behind.
C17_Step ==
    \A r \in Reqs : ReorderStep(r) =>
        /\ UNCHANGED <<cart, sent>>
        /\ orders \subseteq orders' /\ orderItems \subseteq orderItems'
        /\ ~CommitStep(r) => UNCHANGED <<orders, orderItems>>
        /\ CommitStep(r) =>
             /\ Cardinality(orders' \ orders) = 1
             /\ \A o \in orders' \ orders : o.id = req[r].orderId /\ o.userId = req[r].userId
             /\ Cardinality(orderItems' \ orderItems) = Len(req[r].origItems)
             /\ \A i \in orderItems' \ orderItems : i.orderId = req[r].orderId
C17_Failed ==
    \A r \in Reqs :
        req[r].kind = "reorder" /\ req[r].pc = "done" /\ req[r].response # "201" =>
            /\ \A o \in orders : o.id # req[r].orderId
            /\ LinesOf(req[r].orderId) = {}
            /\ req[r].wOrders = {} /\ req[r].wItems = {}
C17_ReorderFrame == []C17_Failed /\ [][C17_Step]_vars

\* a reorder that failed after creating its Order row, the caller having a
\* line in the cart and mails on record
C17_Witness ==
    \E r \in Reqs : /\ req[r].kind = "reorder" /\ req[r].pc = "done"
                    /\ req[r].orderId # 0
                    /\ CartOf(req[r].userId) # {}
                    /\ sent # {}

\* the ids of the cart rows a createOrder call loaded
LoadedIds(R) == {R.cartItems[k].id : k \in 1..Len(R.cartItems)}

\* C18: two createOrder calls of one owner never both commit an order made
\* from the same cart line.
C18_NoDoubleSpend ==
    \A r1, r2 \in Reqs :
        /\ r1 # r2
        /\ req[r1].kind = "createOrder" /\ req[r2].kind = "createOrder"
        /\ req[r1].tx = "commit" /\ req[r2].tx = "commit"
        => LoadedIds(req[r1]) \cap LoadedIds(req[r2]) = {}

\* C19: once a createOrder call has committed, none of the cart lines it
\* ordered exists any more; a createOrder call of the same owner that reads
\* the cart afterwards loads none of them, and when the cart holds nothing
\* else it ends with the empty-cart answer (or the storage error answer),
\* rolled back, without creating an Order.
C19_Gone ==
    \A r \in Reqs :
        req[r].kind = "createOrder" /\ req[r].tx = "commit" =>
            LoadedIds(req[r]) \cap {c.id : c \in cart} = {}
C19_Read ==
    \A r1, r2 \in Reqs :
        /\ r1 # r2
        /\ req[r1].kind = "createOrder" /\ req[r1].tx = "commit"
        /\ req[r2].kind = "createOrder" /\ req[r2].pc = "loadCart"
        /\ req[r2].userId = req[r1].userId
        /\ req'[r2] # req[r2]
        => /\ LoadedIds(req'[r2]) \cap LoadedIds(req[r1]) = {}
           /\ CartOf(req[r2].userId) = {} =>
                /\ req'[r2].pc = "done"
                /\ req'[r2].response \in {"400_empty", "500"}
                /\ req'[r2].tx = "rollback"
                /\ req'[r2].orderId = 0
                /\ UNCHANGED <<orders, orderItems>>
C19_SecondSeesEmptyCart == []C19_Gone /\ [][C19_Read]_vars

\* the first call has committed and the second call of the owner has
\* answered "cart is empty"
C19_Witness ==
    \E r1, r2 \in Reqs :
        /\ req[r1].kind = "createOrder" /\ req[r1].tx = "commit"
        /\ req[r2].kind = "createOrder" /\ req[r2].userId = req[r1].userId
        /\ req[r2].pc = "done" /\ req[r2].response = "400_empty"
        /\ Cardinality(orders) = 1

\* C20: a user's cart never holds two lines of the same book.
C20_OneLinePerBook ==
    \A c1, c2 \in cart :
        c1.userId = c2.userId /\ c1.bookId = c2.bookId => c1.id = c2.id

\* the handler in slot r takes a step
HandlerStep(r) == req'[r] # req[r]

\* C21: order status lifecycle. In every step of a request handler, an Order
\* row that appears is "pending", and an Order row whose status changes was
\* "pending" and becomes "cancelled": no handler changes an order that is
\* cancelled, confirmed, shipped or delivered.
C21_Step ==
    \A r \in Reqs : HandlerStep(r) =>
        /\ \A n \in orders' : (\A o \in orders : o.id # n.id) => n.status = "pending"
        /\ \A o \in orders, n \in orders' :
              o.id = n.id /\ n.status # o.status =>
                  o.status = "pending" /\ n.status = "cancelled"
C21_StatusLifecycle == [][C21_Step]_vars

\* the handler in slot r accepts an add-to-cart or update-quantity request
CartRequestStarts(r) == req[r].pc = "idle" /\ req'[r].kind \in {"add", "update"}

\* C22: every cart line has quantity >= 1. An add-to-cart or update-quantity
\* request is rejected with the validation answer, the cart unchanged, exactly
\* when it asks for a quantity below 1; the write of a repeat add leaves the
\* line with the quantity the handler found plus the added quantity; and the
\* write of an update leaves it with exactly the requested quantity.
C22_Positive == \A c \in cart : c.quantity >= 1
C22_Reject ==
    \A r \in Reqs : CartRequestStarts(r) =>
        /\ UNCHANGED cart
        /\ req'[r].response = "400_validation" <=> req'[r].quantity = 0
        /\ req'[r].response = "400_validation" => req'[r].pc = "done"
        /\ req'[r].pc \in {"addFind", "updateWrite"} => req'[r].quantity >= 1
C22_Write ==
    \A r \in Reqs :
        /\ req[r].pc = "addWrite" /\ req[r].row.id # 0 /\ req'[r].response = "200" =>
             /\ \A c \in cart' : c.id = req[r].row.id =>
                   c.quantity = req[r].row.quantity + req[r].quantity
             /\ \A c \in cart' : c.id # req[r].row.id => c \in cart
        /\ req[r].pc = "addWrite" /\ req[r].row.id = 0 /\ req'[r].response = "201" =>
             \E c \in cart' \ cart : c.quantity = req[r].quantity /\ cart' = cart \cup {c}
        /\ req[r].pc = "updateWrite" /\ req'[r].response = "200" =>
             /\ \A c \in cart' : c.id = req[r].row.id => c.quantity = req[r].quantity
             /\ \A c \in cart' : c.id # req[r].row.id => c \in cart
C22_QuantityAtLeastOne == []C22_Positive /\ [][C22_Reject /\ C22_Write]_vars

\* a repeat add of one copy has raised a line of one copy to 2
C22_Witness ==
    \E r \in Reqs : /\ req[r].kind = "add" /\ req[r].pc = "done"
                    /\ req[r].response = "200"
                    /\ req[r].row.quantity = 1 /\ req[r].quantity = 1
                    /\ \E c \in cart : c.id = req[r].row.id /\ c.quantity = 2

\* the handler in slot r takes a step of a request that works on the cart,
\* and the user the request is made by
CartStep(r) ==
    /\ HandlerStep(r)
    /\ \/ req[r].kind \in {"add", "update", "remove", "clear", "createOrder"}
       \/ req'[r].kind \in {"add", "update", "remove", "clear", "createOrder"}
Requester(r) == IF req[r].pc = "idle" THEN req'[r].userId ELSE req[r].userId

\* C23: cart operations are confined to the requesting user. Every step of
\* an add, update-quantity, remove, clear or createOrder handler leaves the
\* cart rows of every other user exactly as they were; and an update or
\* remove request that names a cart row of another user ends at once with
\* not-found (or the storage error answer), the cart unchanged.
C23_Confined ==
    \A r \in Reqs : CartStep(r) =>
        {c \in cart' : c.userId # Requester(r)} = {c \in cart : c.userId # Requester(r)}
C23_NotFound ==
    \A r \in Reqs :
        /\ req[r].pc = "idle" /\ req'[r].kind \in {"update", "remove"}
        /\ \E c \in cart : c.id = req'[r].paramId /\ c.userId # req'[r].userId
        => /\ req'[r].pc = "done"
           /\ req'[r].response \in {"404", "500"}
           /\ UNCHANGED cart
C23_OwnCartOnly == [][C23_Confined /\ C23_NotFound]_vars

\* a user asked to update or remove a cart row of another user, and the row
\* is there
C23_Witness ==
    \E r \in Reqs : /\ req[r].kind \in {"update", "remove"} /\ req[r].pc = "done"
                    /\ req[r].response = "404"
                    /\ \E c \in cart : c.id = req[r].paramId /\ c.userId # req[r].userId

\* a step deletes a cart row; a step inserts an Order row or an order line
CartRowDeleted == {c.id : c \in cart} \ {c.id : c \in cart'} # {}
OrderRowInserted ==
    \/ {o.id : o \in orders'} \ {o.id : o \in orders} # {}
    \/ {i.id : i \in orderItems'} \ {i.id : i \in orderItems} # {}

\* C24 as stated: a step that deletes a cart row, or inserts an Order row or
\* an order line, is a step of a createOrder, cancelOrder or reorder handler.
C24_ManagerStep ==
    CartRowDeleted \/ OrderRowInserted =>
        \E r \in Reqs : /\ HandlerStep(r)
                        /\ req[r].kind \in {"createOrder", "cancel", "reorder"}
C24_OnlyManagerWrites == [][C24_ManagerStep]_vars

\* C24: a step that deletes a cart row is the commit of a createOrder call,
\* the write of a remove call or a clear call, and the rows it deletes are
\* the caller's; a step that inserts an Order row or an order line is the
\* commit of a createOrder or reorder call.
C24_Delete ==
    CartRowDeleted =>
        \E r \in Reqs :
            /\ HandlerStep(r)
            /\ \/ req[r].kind = "createOrder" /\ CommitStep(r)
               \/ req[r].kind = "remove" /\ req[r].pc = "removeWrite"
               \/ req[r].pc = "idle" /\ req'[r].kind = "clear"
            /\ \A c \in cart : c.id \notin {x.id : x \in cart'} => c.userId = Requester(r)
C24_Insert ==
    OrderRowInserted =>
        \E r \in Reqs : /\ HandlerStep(r)
                        /\ req[r].kind \in {"createOrder", "reorder"}
                        /\ CommitStep(r)
C24_WritersOfCartAndOrders == [][C24_Delete /\ C24_Insert]_vars

\* a remove call has deleted the row it named
C24_Witness ==
    \E r \in Reqs : /\ req[r].kind = "remove" /\ req[r].pc = "done"
                    /\ req[r].response = "200"
                    /\ req[r].row.id # 0
                    /\ \A c \in cart : c.id # req[r].row.id

\* the books of the lines a reorder call read from the original order
OrigBooks(R) == {R.origItems[k].bookId : k \in 1..Len(R.origItems)}

\* C25: the Order row a createOrder or reorder call writes, and the Order it
\* has committed, is owned by the caller; and the lines a reorder call has
\* prepared are one per line of the original order, each referring to the
\* book of that original line.
C25_Owned ==
    \A r \in Reqs :
        req[r].kind \in {"createOrder", "reorder"} =>
            /\ \A o \in req[r].wOrders : o.id = req[r].orderId /\ o.userId = req[r].userId
            /\ req[r].tx = "commit" =>
                  \E o \in orders : o.id = req[r].orderId /\ o.userId = req[r].userId
C25_Copied ==
    \A r \in Reqs :
        req[r].kind = "reorder" /\ req[r].pc = "itemsCreate" =>
            /\ Len(req[r].orderItemsData) = Len(req[r].origItems)
            /\ \A k \in 1..Len(req[r].origItems) :
                  /\ req[r].orderItemsData[k].bookId = req[r].origItems[k].bookId
                  /\ req[r].orderItemsData[k].bookId \in OrigBooks(req[r])
C25_OwnedAndCopied == C25_Owned /\ C25_Copied

\* C26: no cart line is lost by checkout. The commit of a createOrder call
\* deletes only cart rows for which the order it creates has a line with the
\* same book and quantity.
C26_Commit ==
    \A r \in Reqs :
        req[r].kind = "createOrder" /\ CommitStep(r) =>
            \A c \in cart \ cart' :
                \E i \in orderItems' \ orderItems :
                    /\ i.orderId = req[r].orderId
                    /\ i.bookId = c.bookId
                    /\ i.quantity = c.quantity
C26_NoLineLost == [][C26_Commit]_vars

\* C27: the transaction a createOrder or reorder call opens is finished
\* exactly once: a call that has returned has finished its transaction, and
\* rollback is never called on a transaction that is already committed or
\* rolled back.
C27_FinalizedOnce ==
    \A r \in Reqs :
        req[r].kind \in {"createOrder", "reorder"} =>
            /\ req[r].pc = "done" => req[r].tx \in {"commit", "rollback"}
            /\ ~req[r].rbOnFinished

\* C28: a createOrder or reorder handler that has returned has answered the
\* request, with success or with an error status.
C28_Answered ==
    \A r \in Reqs :
        req[r].kind \in {"createOrder", "reorder"} /\ req[r].pc = "done" =>
            req[r].response \in {"201", "400_validation", "400_empty", "400_unavailable",
                                 "404", "500", "500_unhandled"}

\* C29: cancelOrder is safe against a fulfilment step between its read and
\* its save. No step takes an order that is confirmed, shipped or delivered
\* to "cancelled", and the save of a cancelOrder call answers success only
\* when the order is "pending" as the save runs.
C29_NoCancelAfterConfirm ==
    \A o \in orders, n \in orders' :
        o.id = n.id /\ o.status \in {"confirmed", "shipped", "delivered"} =>
            n.status # "cancelled"
C29_SuccessMeansPending ==
    \A r \in Reqs :
        req[r].pc = "cancelSave" /\ req'[r].pc = "done" /\ req'[r].response = "200" =>
            \E o \in orders : o.id = req[r].paramId /\ o.status = "pending"
C29_CancelRaceSafe == [][C29_NoCancelAfterConfirm /\ C29_SuccessMeansPending]_vars

\* C30: every persisted Order has at least one order line, and every order
\* line belongs to exactly one Order that exists.
C30_OrdersHaveLines ==
    /\ \A o \in orders : LinesOf(o.id) # {}
    /\ \A i \in orderItems : Cardinality({o \in orders : o.id = i.orderId}) = 1

\* an order of two lines is persisted
C30_Witness ==
    \E o \in orders : Cardinality(LinesOf(o.id)) = 2

====
